---- MODULE Spec2Model ----
(***************************************************************************)
(* Model of cross-platform/python/cli.py: a script whose main() prints a   *)
(* banner and the first whitespace-delimited token of sys.version, returns *)
(* 0, and whose __main__ guard raises SystemExit(main()).                  *)
(*                                                                         *)
(* Text is modelled as sequences of one-character strings, and standard    *)
(* output as the flat character stream print() produces (each call writes  *)
(* its argument followed by a newline).                                    *)
(***************************************************************************)
EXTENDS Integers, Sequences, FiniteSets, TLC

(* ------------------------------ bounds --------------------------------- *)

\* Every character sequence up to this length over ShortAlphabet is a
\* possible sys.version (next to the release-style strings below).
MaxVersionLen == 3

\* Longest command line (sys.argv[1:]) a run is started with.
MaxArgs == 1

(* --------------------------- the environment --------------------------- *)

ShortAlphabet == {"3", ".", " ", "\n"}

ShortVersions == UNION {[1..n -> ShortAlphabet] : n \in 0..MaxVersionLen}

\* sys.version strings of the shape interpreters report.
ReleaseVersions ==
  { <<"3", ".", "1", "2", ".", "0", " ", "(", "m", "a", "i", "n", ",", " ", "O", "c", "t", " ", " ", "2", " ", "2", "0", "2", "3", ")", " ", "[", "G", "C", "C", " ", "1", "2", ".", "2", ".", "0", "]">>,
    <<"3", ".", "1", "3", ".", "0", "r", "c", "1", " ", "(", "m", "a", "i", "n", ")", " ", "[", "C", "l", "a", "n", "g", " ", "1", "5", "]">>,
    <<"3", ".", "1", "4", ".", "0", "a", "1", " ", "(", "m", "a", "i", "n", ")", "\n", "[", "G", "C", "C", " ", "1", "3", "]">>,
    <<"3", ".", "1", "2", ".", "0", "+", " ", "(", "h", "e", "a", "d", "s", "/", "3", ".", "1", "2", ")", " ", "[", "G", "C", "C", " ", "1", "2", "]">>,
    <<"3", ".", "1", "0", ".", "1", "2">>,
    <<"2", ".", "7", ".", "1", "8", " ", "(", "d", "e", "f", "a", "u", "l", "t", ")", " ", "\n", "[", "G", "C", "C", " ", "8", ".", "4", ".", "0", "]">> }

Versions == ShortVersions \cup ReleaseVersions

ArgWords == {"-v"}

ArgLists == UNION {[1..n -> ArgWords] : n \in 0..MaxArgs}

MainName == "__main__"

ModuleNames == {MainName, "cli"}

Environs == {<<>>, <<"PYTHONUNBUFFERED=1">>}

InitialFiles == {"cli.py"}

\* Exit status of a process that has not ended.
NoStatus == 0 - 1

\* Value of a variable main() has not returned into.
NoReturn == 0 - 1

NoRun == [name |-> "", argv |-> <<>>, stdout |-> <<>>, status |-> NoStatus, exc |-> "none", pc |-> "none"]

VARIABLES
  sys_version,  \* sys.version of the interpreter installation
  argv,         \* sys.argv[1:] of the current run
  name,         \* __name__ the module is loaded under
  environ,      \* the process environment
  files,        \* the files that exist
  pc,           \* position of the current run
  caller,       \* who called main(): "none", "script" (the guard), "importer"
  stdout,       \* characters written to standard output by the current run
  stderr,       \* lines written to standard error by the current run
  ret,          \* value main() returned
  exc,          \* exception raised: "none", "SystemExit", "IndexError"
  status,       \* exit status of the process once it has ended
  prev          \* what the previous run of the session did

vars == <<sys_version, argv, name, environ, files, pc, caller, stdout, stderr, ret, exc, status, prev>>

(* ------------------------------ the code ------------------------------- *)

\* The characters str.split() with no separator treats as whitespace.
WhitespaceChars == {" ", "\t", "\n", "\r", "\f"}

IsSpace_SpaceOnly(c) == c = " "

IsSpace(c) == c \in WhitespaceChars

\* The scan of str.split() with no separator: whitespace ends the piece
\* being collected (cur), and empty pieces are dropped.
RECURSIVE SplitFrom(_, _, _)
SplitFrom(s, i, cur) ==
  IF i > Len(s) THEN (IF cur = <<>> THEN <<>> ELSE <<cur>>)
  ELSE IF IsSpace(s[i])
         THEN (IF cur = <<>> THEN <<>> ELSE <<cur>>) \o SplitFrom(s, i + 1, <<>>)
         ELSE SplitFrom(s, i + 1, Append(cur, s[i]))

\* str.split(): the maximal whitespace-free pieces of s, in order.
split(s) == SplitFrom(s, 1, <<>>)

\* list[i] with Python's 0-based index: the item, or IndexError raised.
Subscript(list, i) ==
  IF i < Len(list)
    THEN [raised |-> FALSE, value |-> list[i + 1]]
    ELSE [raised |-> TRUE, value |-> <<>>]

VersionItem_Index1 == Subscript(split(sys_version), 1)

\* sys.version.split()[0]
VersionItem == Subscript(split(sys_version), 0)

Banner_Typo ==
  <<"R", "u", "n", "n", "i", "n", "g", " ", "e", "x", "a", "m", "p", "l", "e", " ", "P", "y", "t", "h", "o", "n", " ", "C", "L", "I", " ", "f", "r", "o", "m", " ", "u", "s", "e", "f", "u", "l", "-", "s", "c", "r", "i", "p", "t", "s">>

Banner ==
  <<"R", "u", "n", "n", "i", "n", "g", " ", "e", "x", "a", "m", "p", "l", "e", " ", "P", "y", "t", "h", "o", "n", " ", "C", "L", "I", " ", "f", "r", "o", "m", " ", "u", "s", "e", "f", "u", "l", "l", "-", "s", "c", "r", "i", "p", "t", "s">>

PythonPrefix == <<"P", "y", "t", "h", "o", "n", ":", " ">>

VersionLine_NoSplit == PythonPrefix \o sys_version

\* f"Python: {sys.version.split()[0]}"
VersionLine == PythonPrefix \o VersionItem.value

\* print(line): the line and a newline, appended to the stream.
print(out, line) == out \o line \o <<"\n">>

Init ==
  /\ sys_version \in Versions
  /\ argv \in ArgLists
  /\ name \in ModuleNames
  /\ environ \in Environs
  /\ files = InitialFiles
  /\ pc = "load"
  /\ caller = "none"
  /\ stdout = <<>>
  /\ stderr = <<>>
  /\ ret = NoReturn
  /\ exc = "none"
  /\ status = NoStatus
  /\ prev = NoRun

\* Lines 1-6: the module body runs `import sys` and `def main()`.
LoadModule ==
  /\ pc = "load"
  /\ pc' = "guard"
  /\ UNCHANGED <<sys_version, argv, name, environ, files, caller, stdout, stderr, ret, exc, status, prev>>

Guard_NoCheck ==
  /\ pc = "guard"
  /\ pc' = "main_banner"
  /\ caller' = "script"
  /\ UNCHANGED <<sys_version, argv, name, environ, files, stdout, stderr, ret, exc, status, prev>>

\* Line 12: `if __name__ == '__main__':` calls main() or ends the module body.
Guard ==
  /\ pc = "guard"
  /\ IF name = MainName
       THEN pc' = "main_banner" /\ caller' = "script"
       ELSE pc' = "imported" /\ caller' = caller
  /\ UNCHANGED <<sys_version, argv, name, environ, files, stdout, stderr, ret, exc, status, prev>>

\* The importing program calls main() itself.
CallMain ==
  /\ pc = "imported"
  /\ pc' = "main_banner"
  /\ caller' = "importer"
  /\ UNCHANGED <<sys_version, argv, name, environ, files, stdout, stderr, ret, exc, status, prev>>

PrintBanner_Once ==
  /\ pc = "main_banner"
  /\ stdout' = IF prev = NoRun THEN print(stdout, Banner) ELSE stdout
  /\ pc' = "main_version"
  /\ UNCHANGED <<sys_version, argv, name, environ, files, caller, stderr, ret, exc, status, prev>>

\* Line 7: print("Running example Python CLI from usefull-scripts")
PrintBanner ==
  /\ pc = "main_banner"
  /\ stdout' = print(stdout, Banner)
  /\ pc' = "main_version"
  /\ UNCHANGED <<sys_version, argv, name, environ, files, caller, stderr, ret, exc, status, prev>>

PrintVersion_Blocks ==
  /\ pc = "main_version"
  /\ FALSE
  /\ UNCHANGED vars

PrintVersion_WritesFile ==
  /\ pc = "main_version"
  /\ ~VersionItem.raised
  /\ stdout' = print(stdout, VersionLine)
  /\ files' = files \cup {"version.txt"}
  /\ pc' = "main_return"
  /\ UNCHANGED <<sys_version, argv, name, environ, caller, stderr, ret, exc, status, prev>>

\* Line 8: print(f"Python: {sys.version.split()[0]}").  An IndexError from
\* the subscript leaves main(); uncaught in a script, the interpreter
\* writes the traceback to standard error and ends with status 1.
PrintVersion ==
  /\ pc = "main_version"
  /\ IF VersionItem.raised
       THEN /\ exc' = "IndexError"
            /\ stdout' = stdout
            /\ IF caller = "script"
                 THEN /\ stderr' = Append(stderr, "Traceback: IndexError")
                      /\ status' = 1
                      /\ pc' = "done"
                 ELSE /\ stderr' = stderr
                      /\ status' = status
                      /\ pc' = "raised"
       ELSE /\ stdout' = print(stdout, VersionLine)
            /\ pc' = "main_return"
            /\ UNCHANGED <<exc, stderr, status>>
  /\ UNCHANGED <<sys_version, argv, name, environ, files, caller, ret, prev>>

Return_NonZero ==
  /\ pc = "main_return"
  /\ ret' = 1
  /\ pc' = IF caller = "script" THEN "exit" ELSE "returned"
  /\ UNCHANGED <<sys_version, argv, name, environ, files, caller, stdout, stderr, exc, status, prev>>

Return_ArgCount ==
  /\ pc = "main_return"
  /\ ret' = Len(argv)
  /\ pc' = IF caller = "script" THEN "exit" ELSE "returned"
  /\ UNCHANGED <<sys_version, argv, name, environ, files, caller, stdout, stderr, exc, status, prev>>

\* Line 9: return 0
Return ==
  /\ pc = "main_return"
  /\ ret' = 0
  /\ pc' = IF caller = "script" THEN "exit" ELSE "returned"
  /\ UNCHANGED <<sys_version, argv, name, environ, files, caller, stdout, stderr, exc, status, prev>>

\* Line 13: raise SystemExit(main()); the interpreter ends the process with
\* the integer SystemExit carries as its exit status.
RaiseSystemExit ==
  /\ pc = "exit"
  /\ exc' = "SystemExit"
  /\ status' = ret
  /\ pc' = "done"
  /\ UNCHANGED <<sys_version, argv, name, environ, files, caller, stdout, stderr, ret, prev>>

\* Positions at which the current run has nothing more to do.
Terminal == {"done", "imported", "returned", "raised"}

\* The next run of the session: the same installation, any command line,
\* module name and environment; what the finished run did is remembered.
NextRun ==
  /\ pc \in Terminal
  /\ prev' = [name |-> name, argv |-> argv, stdout |-> stdout, status |-> status, exc |-> exc, pc |-> pc]
  /\ argv' \in ArgLists
  /\ name' \in ModuleNames
  /\ environ' \in Environs
  /\ pc' = "load"
  /\ caller' = "none"
  /\ stdout' = <<>>
  /\ stderr' = <<>>
  /\ ret' = NoReturn
  /\ exc' = "none"
  /\ status' = NoStatus
  /\ UNCHANGED <<sys_version, files>>

\* The steps the program itself takes.
ProgramStep ==
  \/ LoadModule
  \/ Guard
  \/ PrintBanner
  \/ PrintVersion
  \/ Return
  \/ RaiseSystemExit

Next ==
  \/ LoadModule
  \/ Guard
  \/ CallMain
  \/ PrintBanner
  \/ PrintVersion
  \/ Return
  \/ RaiseSystemExit
  \/ NextRun

Spec == Init /\ [][Next]_vars

\* A started script runs on: no step of it waits for anything.
FairSpec == Spec /\ WF_vars(ProgramStep)

(* ----------------------- vocabulary of the properties ------------------ *)

\* The two literals of the output format, as the specification words them.
ExpectedBanner ==
  <<"R", "u", "n", "n", "i", "n", "g", " ", "e", "x", "a", "m", "p", "l", "e", " ", "P", "y", "t", "h", "o", "n", " ", "C", "L", "I", " ", "f", "r", "o", "m", " ", "u", "s", "e", "f", "u", "l", "l", "-", "s", "c", "r", "i", "p", "t", "s">>

ExpectedPrefix == <<"P", "y", "t", "h", "o", "n", ":", " ">>

Digits == {"0", "1", "2", "3", "4", "5", "6", "7", "8", "9"}

\* The lines of a character stream: its newline-terminated pieces, and the
\* unterminated rest if there is one.
RECURSIVE LinesFrom(_, _, _)
LinesFrom(s, i, cur) ==
  IF i > Len(s) THEN (IF cur = <<>> THEN <<>> ELSE <<cur>>)
  ELSE IF s[i] = "\n" THEN <<cur>> \o LinesFrom(s, i + 1, <<>>)
  ELSE LinesFrom(s, i + 1, Append(cur, s[i]))

Lines(s) == LinesFrom(s, 1, <<>>)

\* v holds a character that is not whitespace.
HasToken(v) == \E i \in 1..Len(v) : v[i] \notin WhitespaceChars

\* The first whitespace-delimited token of v, stated by its position: it
\* starts at the first non-whitespace character and ends before the next
\* whitespace character or at the end of v.
FirstTokenOf(v) ==
  LET b == CHOOSE i \in 1..Len(v) :
             /\ v[i] \notin WhitespaceChars
             /\ \A k \in 1..(i - 1) : v[k] \in WhitespaceChars
      e == CHOOSE j \in b..Len(v) :
             /\ \A k \in b..j : v[k] \notin WhitespaceChars
             /\ j = Len(v) \/ v[j + 1] \in WhitespaceChars
  IN  SubSeq(v, b, e)

\* t reads X.Y.Z with X, Y, Z non-empty runs of digits.
IsMMP(t) ==
  \E i, j \in 1..Len(t) :
    /\ 1 < i /\ i + 1 < j /\ j < Len(t)
    /\ t[i] = "." /\ t[j] = "."
    /\ \A k \in (1..Len(t)) \ {i, j} : t[k] \in Digits

\* Length of the longest major.minor.patch that t begins with (0 if none).
CoreLen(t) ==
  LET ns == {n \in 1..Len(t) : IsMMP(SubSeq(t, 1, n))}
  IN  IF ns = {} THEN 0 ELSE CHOOSE n \in ns : \A m \in ns : m <= n

Core(t) == SubSeq(t, 1, CoreLen(t))

Suffix(t) == SubSeq(t, CoreLen(t) + 1, Len(t))

\* What follows "Python: " on a line (the line itself if it is shorter).
AfterPrefix(line) == SubSeq(line, Len(ExpectedPrefix) + 1, Len(line))

StartsWithPrefix(line) ==
  /\ Len(line) >= Len(ExpectedPrefix)
  /\ SubSeq(line, 1, Len(ExpectedPrefix)) = ExpectedPrefix

ScriptRun == name = MainName

\* The run was a script and has ended through SystemExit.
Exited == pc = "done" /\ exc = "SystemExit"

\* main() has run to its return statement.
MainReturned == pc \in {"exit", "returned"} \/ Exited

(* ------------------------------ properties ----------------------------- *)

\* C1 as stated: every run as a script ends with exit status 0, whatever
\* the command line and whatever sys.version.
C1_ExitStatusAlwaysZero == pc = "done" => status = 0

\* C1 amended: main() returns 0 whenever it returns; a run as a script
\* whose sys.version holds a non-whitespace character ends through
\* SystemExit with status 0, whatever the command line; a run whose
\* sys.version is empty or all whitespace ends on the IndexError of
\* split()[0], with status 1.
C1_ExitStatusZeroGivenToken ==
  /\ ret \in {NoReturn, 0}
  /\ pc = "done" =>
       IF HasToken(sys_version)
         THEN status = 0 /\ ret = 0 /\ exc = "SystemExit"
         ELSE status = 1 /\ exc = "IndexError"

C1_Witness ==
  /\ pc = "done" /\ status = 0
  /\ argv # <<>>
  /\ HasToken(sys_version)

C3_BannerFirst ==
  /\ stdout # <<>> => Lines(stdout)[1] = ExpectedBanner
  /\ MainReturned =>
       /\ Len(Lines(stdout)) >= 2
       /\ StartsWithPrefix(Lines(stdout)[2])
       /\ ~StartsWithPrefix(Lines(stdout)[1])
  /\ pc \in {"done", "returned", "raised"} => stdout # <<>>

C3_Witness ==
  /\ pc = "main_version"
  /\ stdout = ExpectedBanner \o <<"\n">>

\* C4: a run as a script ends with the standard output and the exit status
\* of the script run before it, whatever the two command lines.
C4_ArgumentsIgnored ==
  (pc = "done" /\ ScriptRun /\ prev.pc = "done" /\ prev.name = MainName) =>
    /\ stdout = prev.stdout
    /\ status = prev.status

C4_Witness ==
  /\ pc = "done" /\ ScriptRun
  /\ prev.pc = "done" /\ prev.name = MainName
  /\ prev.argv = <<>> /\ argv # <<>>
  /\ status = 0

\* C5: two runs in succession that are started alike (same sys.version, same
\* command line, same module name) and come to rest at the same position
\* have written the same standard output, raised the same exception and
\* ended with the same status.
C5_Deterministic ==
  (pc \in Terminal /\ prev.pc = pc /\ prev.name = name /\ prev.argv = argv) =>
    /\ stdout = prev.stdout
    /\ status = prev.status
    /\ exc = prev.exc

C5_Witness ==
  /\ pc = "done" /\ prev.pc = "done"
  /\ prev.name = name /\ prev.argv = argv
  /\ argv # <<>>
  /\ Len(Lines(stdout)) = 2

\* C6: once main() has returned, standard output holds exactly two lines,
\* the banner and the version line, whatever the environment; nothing is
\* on standard error; and no step of a run changes the files or the
\* environment.
C6_TwoLinesOnly ==
  /\ [](MainReturned =>
          /\ Len(Lines(stdout)) = 2
          /\ stdout = ExpectedBanner \o <<"\n">> \o ExpectedPrefix
                        \o FirstTokenOf(sys_version) \o <<"\n">>
          /\ stderr = <<>>)
  /\ [][pc \notin Terminal => (files' = files /\ environ' = environ)]_vars

C6_Witness ==
  /\ Exited
  /\ Len(Lines(stdout)) = 2
  /\ environ # <<>>
  /\ files = InitialFiles

\* C7 as stated: with a non-empty sys.version no run ends in an error.
C7_NoErrorGivenNonEmpty ==
  sys_version # <<>> =>
    /\ exc # "IndexError"
    /\ pc = "done" => status = 0

\* C7 amended: with a sys.version that holds a non-whitespace character no
\* run raises an error or writes to standard error, a run that is under way
\* can always take its next step, and a script that has ended has ended
\* through SystemExit with status 0.
C7_NoErrorGivenToken ==
  HasToken(sys_version) =>
    /\ exc # "IndexError"
    /\ stderr = <<>>
    /\ pc # "raised"
    /\ pc \notin Terminal => ENABLED ProgramStep
    /\ pc = "done" => (status = 0 /\ exc = "SystemExit")

C7_Witness ==
  /\ HasToken(sys_version)
  /\ Exited
  /\ Len(split(sys_version)) = 1
  /\ sys_version \in ReleaseVersions

\* C8: a run as a script ends: from the start of the module body the
\* process end is reached, in one pass.
C8_Terminates == (pc = "load" /\ ScriptRun) ~> (pc = "done")

C8_Witness ==
  /\ pc = "done" /\ ScriptRun
  /\ prev = NoRun
  /\ stdout # <<>>

\* C9: the version line is "Python: " followed by the first
\* whitespace-delimited token of sys.version, unchanged; what is printed
\* holds no whitespace, and it reads major.minor.patch exactly when that
\* token does.
C9_FirstTokenUnchanged ==
  MainReturned =>
    LET printed == AfterPrefix(Lines(stdout)[2])
    IN  /\ Len(Lines(stdout)) = 2
        /\ StartsWithPrefix(Lines(stdout)[2])
        /\ printed = FirstTokenOf(sys_version)
        /\ \A k \in 1..Len(printed) : printed[k] \notin WhitespaceChars
        /\ IsMMP(printed) <=> IsMMP(FirstTokenOf(sys_version))

C9_Witness ==
  /\ MainReturned
  /\ sys_version[1] \in WhitespaceChars
  /\ sys_version[Len(sys_version)] \in WhitespaceChars

\* C10: a module loaded under another name than __main__ raises no
\* SystemExit and ends no process, and writes nothing to standard output
\* unless its importer calls main(); only the __main__ guard calls main()
\* on its own.
C10_GuardedByMainName ==
  /\ ~ScriptRun =>
       /\ exc # "SystemExit"
       /\ status = NoStatus
       /\ caller # "importer" => stdout = <<>>
  /\ caller = "script" => ScriptRun

C10_Witness ==
  /\ ~ScriptRun
  /\ pc = "imported"
  /\ stdout = <<>>
  /\ prev.pc = "returned"

====
